---- MODULE Spec2Model ----
(***************************************************************************)
(* Temple Heritage Hub (temple_history_app.py): the location resolver of   *)
(* the upload page, the validation and routing of a submission, and the    *)
(* sqlite store it writes to.                                              *)
(*                                                                         *)
(* Values.  A text is a sequence of one-character strings.  An optional    *)
(* number (a Python float or None) is <<>> for None and <<x>> for x, in    *)
(* whole degrees.  One action is one Streamlit script run of the upload    *)
(* page, or one statement of save_contribution against the database.       *)
(***************************************************************************)
EXTENDS Integers, Sequences, FiniteSets, TLC

\* ------------------------------------------------------------------ bounds
MaxRows    == 3    \* rows the store may hold, all tables together
MaxRowsLoc == 1    \* the same where the location inputs are drawn in full
MaxFiles   == 2    \* files attached to one submission
MaxClock   == 1    \* ticks of the database clock
MaxStored  == 1    \* rows per table in a database file found at start

\* --------------------------------------------------------------- constants
LatMin == -90
LatMax == 90
LonMin == -180
LonMax == 180
HttpOk == 200

None      == <<>>
Some(x)   == <<x>>
NoMethod  == "None"
Sessions  == {1, 2}

\* Python truthiness of an optional number: None and 0.0 are falsy.
Truthy(v) == v # None /\ v[1] # 0

\* ------------------------------------------------------------------- texts
Empty     == <<>>
Anonymous == <<"A", "n", "o", "n", "y", "m", "o", "u", "s">>

RECURSIVE lstrip(_)
lstrip(t) == IF t # <<>> /\ Head(t) = " " THEN lstrip(Tail(t)) ELSE t

RECURSIVE rstrip(_)
rstrip(t) == IF t # <<>> /\ t[Len(t)] = " "
             THEN rstrip(SubSeq(t, 1, Len(t) - 1)) ELSE t

\* str.strip()
strip(t) == rstrip(lstrip(t))

\* x or 'Anonymous' on a str: the empty string alone is falsy.
OrAnonymous(name) == IF name = Empty THEN Anonymous ELSE name

\* The five entries of the "Choose how you'd like to contribute" selectbox.
TPhotos == "Upload Photos/Images"
TAudio  == "Share Audio (Prayers, Stories, etc.)"
TDocs   == "Upload Documents/Texts"
TTemple == "Add New Temple Information"
TEvent  == "Share Historical Event/Story"
ContributionTypes == {TPhotos, TAudio, TDocs, TTemple, TEvent}

\* "Temple Information" in contribution_type, "Historical Event" in ...
IsTemple(t) == t = TTemple
IsEvent(t)  == t = TEvent
\* the three branches that create a file uploader
HasUploader(t) == t \in {TPhotos, TAudio, TDocs}

\* An uploaded file: its name and the length of what read() returns.
FileNames == << <<"a">>, <<"b">>, <<"c">>, <<"d">> >>
File(i)   == [name |-> FileNames[i], size |-> i]
Files(n)  == [i \in 1..n |-> File(i)]

VARIABLES
  GEOLOCATION_AVAILABLE, \* the import of streamlit_geolocation succeeded
  location_data,         \* st.session_state.location_data, per session
  attempt,               \* the location widgets' values in the session's last run
  notice,                \* what the location component reported in that run
  pc,                    \* "idle", "saving" (inside save_contribution), "done"
  args,                  \* the submitted form of the last submitting run
  errors,                \* the validation errors of that run
  outcome,               \* how the session's last run ended
  success_count,         \* what save_contribution returned last
  txn,                   \* rows inserted on the open connection, not committed
  total_changes,         \* rows inserted on the session's last connection
  lock,                  \* the sessions holding the database write lock
  address_input,         \* what was typed into the address box in that run
  page,                  \* what a read-only page rendered in the last run
  now,                   \* CURRENT_TIMESTAMP, in ticks
  temples, temple_media, content_contributions, historical_events
                         \* the committed rows of the four tables

vars == <<GEOLOCATION_AVAILABLE, location_data, attempt, notice, pc, args,
          errors, outcome, success_count, txn, total_changes, lock,
          address_input, page, now,
          temples, temple_media, content_contributions, historical_events>>

store == <<temples, temple_media, content_contributions, historical_events>>

\* ------------------------------------------------------- location resolver
UnsetLocation == [latitude |-> None, longitude |-> None,
                  address |-> Empty, method |-> NoMethod]

IpCity    == <<"c">>
IpRegion  == <<"r">>
IpCountry == <<"n">>
\* f"{city}, {region}, {country}"
IpAddress == IpCity \o <<",", " ">> \o IpRegion \o <<",", " ">> \o IpCountry

\* get_location_from_ip: the dict, or None (<<>>) on any failure.  A response
\* is [status, ok, latitude, longitude]: ok is FALSE when requests.get or
\* response.json() raised (timeout, connection error, malformed body).
get_location_from_ip_nocheck(resp) ==
  IF resp.ok
  THEN <<[latitude |-> resp.latitude, longitude |-> resp.longitude]>>
  ELSE None

get_location_from_ip(resp) ==
  IF resp.ok /\ resp.status = HttpOk
  THEN <<[latitude |-> resp.latitude, longitude |-> resp.longitude]>>
  ELSE None

\* st.number_input(min_value, max_value, value): a typed number outside the
\* range is not accepted and the widget keeps its value.
number_input_unbounded(lo, hi, value, typed) == typed

number_input(lo, hi, value, typed) ==
  IF lo <= typed /\ typed <= hi THEN typed ELSE value

\* f"{x:.6f}" raises TypeError on None.
FormatRaises(v) == v = None

\* The GPS branch.  in.fired: streamlit_geolocation() returned a reading.
GpsAcceptsAnyReading(in) == in.fired

GpsAccepts(in) == in.fired /\ Truthy(in.latitude)

\* The IP branch taking any dict the lookup returns.
IpAcceptsAnyDict(ip) == ip # None

IpAccepts(ip) == ip # None /\ Truthy(ip[1].latitude)

\* The method branch of location_input_component (col1): the session fix
\* after it, the message shown, and whether a statement raised.
MethodBranch(ld, in, gps) ==
  CASE in.method = "GPS" ->
         IF ~gps
         THEN [loc |-> ld, notice |-> "gps_unavailable", raised |-> FALSE]
         ELSE IF GpsAccepts(in)
         THEN [loc |-> [ld EXCEPT !.latitude = in.latitude,
                                   !.longitude = in.longitude,
                                   !.method = "GPS"],
               notice |-> "gps_detected",
               raised |-> FormatRaises(in.longitude)]
         ELSE IF in.fired
         THEN [loc |-> ld, notice |-> "gps_failed", raised |-> FALSE]
         ELSE [loc |-> ld, notice |-> "none", raised |-> FALSE]
    [] in.method = "Manual" ->
         LET manual_lat == number_input(LatMin, LatMax,
                             IF Truthy(ld.latitude) THEN ld.latitude[1] ELSE 0,
                             in.latitude[1])
             manual_lon == number_input(LonMin, LonMax,
                             IF Truthy(ld.longitude) THEN ld.longitude[1] ELSE 0,
                             in.longitude[1])
         IN IF in.fired
            THEN [loc |-> [ld EXCEPT !.latitude = Some(manual_lat),
                                      !.longitude = Some(manual_lon),
                                      !.method = "Manual"],
                  notice |-> "manual_set", raised |-> FALSE]
            ELSE [loc |-> ld, notice |-> "none", raised |-> FALSE]
    [] in.method = "IP" ->
         IF ~in.fired
         THEN [loc |-> ld, notice |-> "none", raised |-> FALSE]
         ELSE LET ip_location == get_location_from_ip(in)
              IN IF IpAccepts(ip_location)
                 THEN [loc |-> [ld EXCEPT !.latitude = ip_location[1].latitude,
                                           !.longitude = ip_location[1].longitude,
                                           !.address = IpAddress,
                                           !.method = "IP"],
                       notice |-> "ip_detected",
                       raised |-> FormatRaises(ip_location[1].longitude)]
                 ELSE [loc |-> ld, notice |-> "ip_failed", raised |-> FALSE]

\* col2: the metrics of the current location.
DisplayRaises(ld) == Truthy(ld.latitude) /\ FormatRaises(ld.longitude)

\* An address text input that starts empty in every run.
AddressInputCleared(typed, default) == IF typed = None THEN Empty ELSE typed[1]

\* The address text input returns its default (the session's address) or
\* what the user typed.
AddressInput(typed, default) == IF typed = None THEN default ELSE typed[1]

\* location_input_component.  A raised exception ends the script run with
\* the session state as written so far.
location_input_component(ld, in, typed, gps) ==
  LET b == MethodBranch(ld, in, gps)
  IN IF b.raised \/ DisplayRaises(b.loc)
     THEN [b EXCEPT !.raised = TRUE]
     ELSE [b EXCEPT !.loc.address = AddressInput(typed, @)]

\* ------------------------------------------------------------------- inputs
Coordinate(S) == {Some(x) : x \in S}

\* What streamlit_geolocation() returns: nothing yet, or a reading whose
\* coordinates may be missing.
GpsInputs ==
  {[method |-> "GPS", fired |-> FALSE, ok |-> TRUE, status |-> 0,
    latitude |-> None, longitude |-> None]}
  \cup [method : {"GPS"}, fired : {TRUE}, ok : {TRUE}, status : {0},
        latitude : {None} \cup Coordinate({0, 90}),
        longitude : {None} \cup Coordinate({-180})]

\* The two number inputs when "Set Location" is pressed.
ManualInputs ==
  [method : {"Manual"}, fired : {TRUE}, ok : {TRUE}, status : {0},
   latitude : Coordinate({-91, 0, 90}), longitude : Coordinate({-180, 181})]

\* "Detect IP Location" pressed, and what the lookup got: a 200 response with
\* a JSON body, an error status, or an exception (timeout, malformed body).
IpInputs ==
  [method : {"IP"}, fired : {TRUE}, ok : {TRUE}, status : {HttpOk},
   latitude : {None} \cup Coordinate({0, 90}),
   longitude : {None} \cup Coordinate({-180})]
  \cup [method : {"IP"}, fired : {TRUE}, ok : {TRUE}, status : {500},
        latitude : {None, Some(90)}, longitude : {None, Some(-180)}]
  \cup {[method |-> "IP", fired |-> TRUE, ok |-> FALSE, status |-> 0,
         latitude |-> None, longitude |-> None]}

\* A run in which no location button is pressed: the method radio alone.
Unpressed(m) == [method |-> m, fired |-> FALSE, ok |-> TRUE, status |-> 0,
                 latitude |-> Some(0), longitude |-> Some(0)]

\* What the run keeps of the widgets' values.
NoAttempt == [method |-> NoMethod, fired |-> FALSE, ok |-> TRUE, status |-> 0,
              latitude |-> None, longitude |-> None]

\* ------------------------------------------------------------- submission
NoArgs == [submitted |-> FALSE, contribution_type |-> TTemple, title |-> Empty,
           description |-> Empty, contributor_name |-> Empty,
           uploaded_files |-> <<>>]

ErrTitle == "Title is required"
ErrDescription == "Content description is required"
ErrFiles == "Please upload at least one file"

\* The validation of upload_content_interface, stopping at the first error.
ValidationFirstError(a) ==
  IF strip(a.title) = Empty THEN <<ErrTitle>>
  ELSE IF strip(a.description) = Empty THEN <<ErrDescription>>
  ELSE IF Len(a.uploaded_files) = 0 /\ ~IsTemple(a.contribution_type)
          /\ ~IsEvent(a.contribution_type) THEN <<ErrFiles>>
  ELSE <<>>

\* The validation of upload_content_interface: the list `errors`.
Validation(a) ==
  (IF strip(a.title) = Empty THEN <<ErrTitle>> ELSE <<>>)
  \o (IF strip(a.description) = Empty THEN <<ErrDescription>> ELSE <<>>)
  \o (IF Len(a.uploaded_files) = 0
         /\ ~IsTemple(a.contribution_type) /\ ~IsEvent(a.contribution_type)
      THEN <<ErrFiles>> ELSE <<>>)

\* uploaded_files: the uploader's list, None (here <<>>) without an uploader.
UploadedFiles(t, n) == IF HasUploader(t) THEN Files(n) ELSE <<>>

\* The INSERT statements save_contribution runs for a submission.
InsertsFirstOnly(a) ==
  IF IsTemple(a.contribution_type) \/ IsEvent(a.contribution_type) THEN 1
  ELSE IF Len(a.uploaded_files) > 0 THEN 1 ELSE 0

Inserts(a) ==
  IF IsTemple(a.contribution_type) \/ IsEvent(a.contribution_type) THEN 1
  ELSE Len(a.uploaded_files)

\* The table a submission is written to.
Table(t) == IF IsTemple(t) THEN "temples"
            ELSE IF IsEvent(t) THEN "historical_events"
            ELSE "content_contributions"

TempleRow(id, a, ld, at) ==
  [id |-> id, created_at |-> at, name |-> a.title, location_address |-> ld.address,
   latitude |-> ld.latitude, longitude |-> ld.longitude,
   description |-> a.description,
   contributor_name |-> OrAnonymous(a.contributor_name)]

EventRowWithAddress(id, a, ld, at) ==
  [id |-> id, created_at |-> at, event_title |-> a.title, event_description |-> a.description,
   latitude |-> ld.latitude, longitude |-> ld.longitude,
   location_address |-> ld.address,
   contributor_name |-> OrAnonymous(a.contributor_name)]

EventRow(id, a, ld, at) ==
  [id |-> id, created_at |-> at, event_title |-> a.title, event_description |-> a.description,
   latitude |-> ld.latitude, longitude |-> ld.longitude,
   contributor_name |-> OrAnonymous(a.contributor_name)]

ContentRow(id, a, ld, f, at) ==
  [id |-> id, created_at |-> at, title |-> a.title, content_type |-> a.contribution_type,
   description |-> a.description, latitude |-> ld.latitude,
   longitude |-> ld.longitude, location_address |-> ld.address,
   contributor_name |-> OrAnonymous(a.contributor_name),
   filename |-> f.name, file_size |-> f.size]

\* The rows of `pending` (the open transaction) that go to table tbl.
RECURSIVE RowsFor(_, _)
RowsFor(pending, tbl) ==
  IF pending = <<>> THEN <<>>
  ELSE (IF Head(pending).table = tbl THEN <<Head(pending).row>> ELSE <<>>)
       \o RowsFor(Tail(pending), tbl)

\* conn.commit() as a rewrite of the table by the pending rows.
CommitReplaces(rows, pending, tbl) == RowsFor(pending, tbl)

\* conn.commit(): the pending rows become rows of the table.
Commit(rows, pending, tbl) == rows \o RowsFor(pending, tbl)

\* conn.close() with inserts not committed, as under autocommit.
RollbackKeeps(rows, pending, tbl) == rows \o RowsFor(pending, tbl)

\* conn.close() without a commit: the open transaction is rolled back.
Rollback(rows, pending, tbl) == rows

TableRows(tbl) == CASE tbl = "temples" -> temples
                    [] tbl = "historical_events" -> historical_events
                    [] tbl = "content_contributions" -> content_contributions

\* AUTOINCREMENT: one more than the largest id of the table, the rows of the
\* open transaction included.
NextId(tbl, pending) == Len(TableRows(tbl)) + Len(RowsFor(pending, tbl)) + 1

RowCount == Len(temples) + Len(content_contributions) + Len(historical_events)

\* -------------------------------------------------------------- read side
\* A query result or DataFrame is the sequence of its rows; NULL is <<>>.
\* ORDER BY created_at DESC; rows of one timestamp stay in rowid order.
RECURSIVE InsertByCreatedAt(_, _)
InsertByCreatedAt(r, q) ==
  IF q = <<>> THEN <<r>>
  ELSE IF Head(q).created_at >= r.created_at
       THEN <<Head(q)>> \o InsertByCreatedAt(r, Tail(q))
       ELSE <<r>> \o q

RECURSIVE OrderByCreatedAtDesc(_)
OrderByCreatedAtDesc(rows) ==
  IF rows = <<>> THEN <<>>
  ELSE InsertByCreatedAt(rows[Len(rows)],
                         OrderByCreatedAtDesc(SubSeq(rows, 1, Len(rows) - 1)))

\* The three queries of browse_contributions, with their renamed columns.
ContributionView(r) ==
  [title |-> r.title, content_type |-> r.content_type,
   description |-> r.description, contributor_name |-> r.contributor_name,
   latitude |-> r.latitude, longitude |-> r.longitude,
   location_address |-> r.location_address,
   created_at |-> r.created_at, filename |-> r.filename]

TempleView(r) ==
  [title |-> r.name, content_type |-> "Temple Information",
   description |-> r.description, contributor_name |-> r.contributor_name,
   latitude |-> r.latitude, longitude |-> r.longitude,
   location_address |-> r.location_address,
   created_at |-> r.created_at, filename |-> None]

EventView(r) ==
  [title |-> r.event_title, content_type |-> "Historical Event",
   description |-> r.event_description,
   contributor_name |-> r.contributor_name,
   latitude |-> r.latitude, longitude |-> r.longitude,
   location_address |-> None,
   created_at |-> r.created_at, filename |-> None]

contributions_df ==
  LET q == OrderByCreatedAtDesc(content_contributions)
  IN [i \in 1..Len(q) |-> ContributionView(q[i])]

temples_df ==
  LET q == OrderByCreatedAtDesc(temples)
  IN [i \in 1..Len(q) |-> TempleView(q[i])]

events_df ==
  LET q == OrderByCreatedAtDesc(historical_events)
  IN [i \in 1..Len(q) |-> EventView(q[i])]

\* pd.concat([contributions_df, temples_df, events_df])
all_contributions == contributions_df \o temples_df \o events_df

\* df['latitude'].notna() & df['longitude'].notna(), and the SQL
\* latitude IS NOT NULL AND longitude IS NOT NULL.
HasCoordinates(r) == r.latitude # None /\ r.longitude # None

\* df['latitude'].notna() alone, and the SQL latitude IS NOT NULL.
HasLatitude(r) == r.latitude # None

\* The entry "All" of the filter selectboxes.
All     == "All"
AllText == <<"A", "l", "l">>

\* The options of the two selectboxes of browse_contributions.
ContentFilters     == {All} \cup {r.content_type : r \in
                         {all_contributions[i] : i \in DOMAIN all_contributions}}
ContributorFilters == {AllText} \cup {r.contributor_name : r \in
                         {all_contributions[i] : i \in DOMAIN all_contributions}}

\* The checkbox "Only show contributions with location data".
LocationFilter(df, location_filter) ==
  IF location_filter THEN SelectSeq(df, HasLatitude) ELSE df

\* "No contributions yet": the page returns before any filter is drawn.
NoContributions ==
  [name |-> "browse", empty |-> TRUE, content_filter |-> All,
   contributor_filter |-> AllText, location_filter |-> FALSE,
   filtered_df |-> <<>>, map_data |-> <<>>]

\* browse_contributions: filtered_df and map_data.
browse_contributions(content_filter, contributor_filter, location_filter) ==
  IF all_contributions = <<>>
  THEN NoContributions
  ELSE LET byType == IF content_filter # All
                     THEN SelectSeq(all_contributions,
                            LAMBDA r : r.content_type = content_filter)
                     ELSE all_contributions
           byName == IF contributor_filter # AllText
                     THEN SelectSeq(byType,
                            LAMBDA r : r.contributor_name = contributor_filter)
                     ELSE byType
           filtered == LocationFilter(byName, location_filter)
       IN [name |-> "browse", empty |-> FALSE,
           content_filter |-> content_filter,
           contributor_filter |-> contributor_filter,
           location_filter |-> location_filter,
           filtered_df |-> filtered,
           map_data |-> SelectSeq(filtered, HasCoordinates)]

\* The column has_location of view_temples.
has_location(r) == IF HasCoordinates(r) THEN "Yes" ELSE "No"

LocationOptions == {All, "With GPS coordinates", "Without GPS coordinates"}

\* view_temples with the search box empty; no architecture style is ever
\* stored, so that selectbox offers "All" alone.
view_temples(location_filter) ==
  LET df == OrderByCreatedAtDesc(temples)
      filtered ==
        IF location_filter = "With GPS coordinates"
        THEN SelectSeq(df, LAMBDA r : has_location(r) = "Yes")
        ELSE IF location_filter = "Without GPS coordinates"
        THEN SelectSeq(df, LAMBDA r : has_location(r) = "No")
        ELSE df
  IN [name |-> "temples", empty |-> df = <<>>,
      filtered_df |-> IF df = <<>> THEN <<>> ELSE filtered,
      temples_with_coords |->
        IF df = <<>> THEN <<>>
        ELSE SelectSeq(filtered, LAMBDA r : has_location(r) = "Yes")]

\* The three SELECTs of locations_query.
TempleLocation(r) ==
  [title |-> r.name, type |-> "Temple", latitude |-> r.latitude,
   longitude |-> r.longitude, location_address |-> r.location_address]

ContributionLocation(r) ==
  [title |-> r.title, type |-> r.content_type, latitude |-> r.latitude,
   longitude |-> r.longitude, location_address |-> r.location_address]

EventLocation(r) ==
  [title |-> r.event_title, type |-> "Historical Event",
   latitude |-> r.latitude, longitude |-> r.longitude,
   location_address |-> None]

\* show_heritage_map: locations_df, the UNION ALL of the three tables.
show_heritage_map ==
  LET t == SelectSeq(temples, HasCoordinates)
      c == SelectSeq(content_contributions, HasCoordinates)
      e == SelectSeq(historical_events, HasCoordinates)
  IN [name |-> "map",
      locations_df |-> [i \in 1..Len(t) |-> TempleLocation(t[i])]
                       \o [i \in 1..Len(c) |-> ContributionLocation(c[i])]
                       \o [i \in 1..Len(e) |-> EventLocation(e[i])]]

\* SUM(file_size)
RECURSIVE SumSize(_)
SumSize(q) == IF q = <<>> THEN 0 ELSE Head(q).file_size + SumSize(Tail(q))

\* strftime('%Y-%m', created_at), a month being TicksPerMonth ticks.
TicksPerMonth == 2
Month(at) == at \div TicksPerMonth

\* show_heritage_statistics: the three queries.
show_heritage_statistics ==
  [name |-> "statistics",
   total_temples |-> Len(temples),
   temples_with_location |-> Len(SelectSeq(temples, HasLatitude)),
   temples_with_named_contributors |->
     Len(SelectSeq(temples, LAMBDA r : r.contributor_name # Anonymous)),
   content_stats |->
     [t \in {content_contributions[i].content_type :
                i \in DOMAIN content_contributions} |->
        LET of == SelectSeq(content_contributions,
                            LAMBDA r : r.content_type = t)
        IN [count |-> Len(of), total_size |-> SumSize(of)]],
   monthly_contributions |->
     [m \in {Month(content_contributions[i].created_at) :
                i \in DOMAIN content_contributions} |->
        Len(SelectSeq(content_contributions,
                      LAMBDA r : Month(r.created_at) = m))]]

\* show_enhanced_home: the four metrics.
show_enhanced_home ==
  [name |-> "home",
   temple_count |-> Len(temples),
   contribution_count |-> Len(content_contributions),
   event_count |-> Len(historical_events),
   total |-> Len(temples) + Len(content_contributions)
             + Len(historical_events)]

\* What a run of the upload page leaves of the read-only pages: nothing.
NoPage == [name |-> "none"]

\* ------------------------------------------------------------------ actions
Init ==
  /\ GEOLOCATION_AVAILABLE \in BOOLEAN
  /\ location_data = [s \in Sessions |-> UnsetLocation]
  /\ attempt = [s \in Sessions |-> NoAttempt]
  /\ notice = [s \in Sessions |-> "none"]
  /\ pc = [s \in Sessions |-> "idle"]
  /\ args = [s \in Sessions |-> NoArgs]
  /\ errors = [s \in Sessions |-> <<>>]
  /\ outcome = [s \in Sessions |-> "none"]
  /\ success_count = [s \in Sessions |-> 0]
  /\ txn = [s \in Sessions |-> <<>>]
  /\ total_changes = [s \in Sessions |-> 0]
  /\ lock = {}
  /\ address_input = [s \in Sessions |-> None]
  /\ page = [s \in Sessions |-> NoPage]
  /\ now = 0
  /\ temples = <<>>
  /\ temple_media = <<>>
  /\ content_contributions = <<>>
  /\ historical_events = <<>>

\* A script run of the upload page in which the form is not submitted: a
\* press of "Set Location" or "Detect IP Location", a GPS reading, or a
\* plain rerun.  D gives the sets the inputs are drawn from.
Interact(s, D) ==
  /\ pc[s] = "idle"
  /\ \E in \in D.location, typed \in D.address :
       \E r \in {location_input_component(location_data[s],
                    in, typed, GEOLOCATION_AVAILABLE)} :
          /\ location_data' = [location_data EXCEPT ![s] = r.loc]
          /\ attempt' = [attempt EXCEPT ![s] = in]
          /\ address_input' = [address_input EXCEPT ![s] = typed]
          /\ notice' = [notice EXCEPT ![s] = r.notice]
          /\ outcome' = [outcome EXCEPT ![s] =
                           IF r.raised THEN "exception" ELSE "shown"]
  /\ pc' = [pc EXCEPT ![s] = "done"]
  /\ UNCHANGED <<GEOLOCATION_AVAILABLE, args, errors, success_count,
                 total_changes, txn, lock, page, now, store>>

\* Inserts still to come from the submissions being saved.
RECURSIVE PendingInserts(_)
PendingInserts(S) ==
  IF S = {} THEN 0
  ELSE LET s == CHOOSE x \in S : TRUE
       IN (IF pc[s] = "saving" THEN Inserts(args[s]) ELSE 0)
          + PendingInserts(S \ {s})

\* A script run of the upload page in which "Upload Content" is pressed: the
\* location component, then the validation, then the call of
\* save_contribution when there is no error.  No location button is pressed
\* in such a run; a GPS reading is read again.
Submit(s, D) ==
  /\ pc[s] = "idle"
  /\ \E in \in {i \in D.location : i.method = "GPS" \/ ~i.fired},
        typed \in D.address, t \in D.types, title \in D.titles,
        desc \in D.descs, name \in D.names, n \in D.nfiles :
       LET r == location_input_component(location_data[s], in, typed,
                                         GEOLOCATION_AVAILABLE)
           a == [submitted |-> TRUE, contribution_type |-> t, title |-> title,
                 description |-> desc, contributor_name |-> name,
                 uploaded_files |-> UploadedFiles(t, n)]
           errs == Validation(a)
           saves == ~r.raised /\ errs = <<>>
       IN /\ saves => RowCount + PendingInserts(Sessions) + Inserts(a) <= D.rows
          /\ location_data' = [location_data EXCEPT ![s] = r.loc]
          /\ attempt' = [attempt EXCEPT ![s] = in]
          /\ address_input' = [address_input EXCEPT ![s] = typed]
          /\ notice' = [notice EXCEPT ![s] = r.notice]
          /\ args' = [args EXCEPT ![s] = IF r.raised THEN NoArgs ELSE a]
          /\ errors' = [errors EXCEPT ![s] = IF r.raised THEN <<>> ELSE errs]
          /\ outcome' = [outcome EXCEPT ![s] =
                           IF r.raised THEN "exception"
                           ELSE IF errs # <<>> THEN "errors" ELSE "saving"]
          /\ pc' = [pc EXCEPT ![s] = IF saves THEN "saving" ELSE "done"]
  /\ UNCHANGED <<GEOLOCATION_AVAILABLE, success_count, total_changes, txn,
                 lock, page, now, store>>

\* The row the next c.execute of save_contribution inserts.
NextRow(s) ==
  LET a   == args[s]
      tbl == Table(a.contribution_type)
      id  == NextId(tbl, txn[s])
      ld  == location_data[s]
  IN [table |-> tbl,
      row |-> CASE tbl = "temples" -> TempleRow(id, a, ld, now)
                [] tbl = "historical_events" -> EventRow(id, a, ld, now)
                [] tbl = "content_contributions" ->
                     ContentRow(id, a, ld, a.uploaded_files[Len(txn[s]) + 1],
                                now)]

\* A database without a write lock.
CanWriteAlways(s, holders) == TRUE

\* sqlite's write lock: an INSERT goes ahead when no other connection has
\* an open write transaction, and waits otherwise.
CanWrite(s, holders) == holders \subseteq {s}

\* One c.execute(INSERT ...) of save_contribution succeeds: the row is in the
\* connection's open transaction, which holds the write lock.
Execute(s) ==
  /\ pc[s] = "saving"
  /\ Len(txn[s]) < Inserts(args[s])
  /\ CanWrite(s, lock)
  /\ txn' = [txn EXCEPT ![s] = Append(@, NextRow(s))]
  /\ lock' = {s}
  /\ success_count' = [success_count EXCEPT ![s] = @ + 1]
  /\ total_changes' = [total_changes EXCEPT ![s] = @ + 1]
  /\ UNCHANGED <<GEOLOCATION_AVAILABLE, location_data, attempt, notice, pc,
                 args, errors, outcome, address_input, page, now, store>>

\* except Exception: success_count = 0; finally: conn.close(); and back in
\* upload_content_interface nothing is cleared.
Abort(s) ==
  /\ temples' = Rollback(temples, txn[s], "temples")
  /\ content_contributions' =
       Rollback(content_contributions, txn[s], "content_contributions")
  /\ historical_events' =
       Rollback(historical_events, txn[s], "historical_events")
  /\ txn' = [txn EXCEPT ![s] = <<>>]
  /\ lock' = lock \ {s}
  /\ success_count' = [success_count EXCEPT ![s] = 0]
  /\ outcome' = [outcome EXCEPT ![s] = "failed"]
  /\ pc' = [pc EXCEPT ![s] = "done"]
  /\ UNCHANGED <<GEOLOCATION_AVAILABLE, location_data, attempt, notice, args,
                 errors, total_changes, address_input, page, now,
                 temple_media>>

\* uploaded_file.read() or c.execute raises (an I/O error, a full disk, the
\* database locked by another connection for longer than the timeout).
ExecuteFail(s) ==
  /\ pc[s] = "saving"
  /\ Len(txn[s]) < Inserts(args[s])
  /\ Abort(s)

\* The session fix never cleared.
AfterSaveKeep(ld, count) == ld

\* The session fix after save_contribution returned count.
AfterSave(ld, count) == IF count > 0 THEN UnsetLocation ELSE ld

\* conn.commit() succeeds, save_contribution returns success_count, and
\* upload_content_interface clears the session fix when it is positive.
CommitOk(s) ==
  /\ pc[s] = "saving"
  /\ Len(txn[s]) = Inserts(args[s])
  /\ temples' = Commit(temples, txn[s], "temples")
  /\ content_contributions' =
       Commit(content_contributions, txn[s], "content_contributions")
  /\ historical_events' =
       Commit(historical_events, txn[s], "historical_events")
  /\ txn' = [txn EXCEPT ![s] = <<>>]
  /\ lock' = lock \ {s}
  /\ outcome' = [outcome EXCEPT ![s] = "saved"]
  /\ pc' = [pc EXCEPT ![s] = "done"]
  /\ location_data' = [location_data EXCEPT ![s] =
                         AfterSave(@, success_count[s])]
  /\ UNCHANGED <<GEOLOCATION_AVAILABLE, attempt, notice, args, errors,
                 success_count, total_changes, address_input, page, now,
                 temple_media>>

\* conn.commit() raises.
CommitFail(s) ==
  /\ pc[s] = "saving"
  /\ Len(txn[s]) = Inserts(args[s])
  /\ Abort(s)

\* The script run ends: its locals and what it displayed are gone; the
\* session state and the store remain.
Finish(s) ==
  /\ pc[s] = "done"
  /\ pc' = [pc EXCEPT ![s] = "idle"]
  /\ attempt' = [attempt EXCEPT ![s] = NoAttempt]
  /\ notice' = [notice EXCEPT ![s] = "none"]
  /\ args' = [args EXCEPT ![s] = NoArgs]
  /\ errors' = [errors EXCEPT ![s] = <<>>]
  /\ outcome' = [outcome EXCEPT ![s] = "none"]
  /\ success_count' = [success_count EXCEPT ![s] = 0]
  /\ total_changes' = [total_changes EXCEPT ![s] = 0]
  /\ address_input' = [address_input EXCEPT ![s] = None]
  /\ page' = [page EXCEPT ![s] = NoPage]
  /\ UNCHANGED <<GEOLOCATION_AVAILABLE, location_data, txn, lock, now, store>>

\* A script run of a read-only page: it opens a connection, runs its SELECT
\* statements, closes the connection and renders the result.
Render(s, result) ==
  /\ page' = [page EXCEPT ![s] = result]
  /\ outcome' = [outcome EXCEPT ![s] = "shown"]
  /\ pc' = [pc EXCEPT ![s] = "done"]
  /\ UNCHANGED <<GEOLOCATION_AVAILABLE, location_data, attempt, notice, args,
                 errors, success_count, txn, total_changes, lock,
                 address_input, now, store>>

Browse(s) ==
  /\ pc[s] = "idle"
  /\ \E content_filter \in ContentFilters,
        contributor_filter \in ContributorFilters,
        location_filter \in BOOLEAN :
       Render(s, browse_contributions(content_filter, contributor_filter,
                                      location_filter))

ViewTemples(s) ==
  /\ pc[s] = "idle"
  /\ \E location_filter \in LocationOptions :
       Render(s, view_temples(location_filter))

HeritageMap(s) ==
  /\ pc[s] = "idle"
  /\ Render(s, show_heritage_map)

Statistics(s) ==
  /\ pc[s] = "idle"
  /\ Render(s, show_heritage_statistics)

Home(s) ==
  /\ pc[s] = "idle"
  /\ Render(s, show_enhanced_home)

\* A tick of the database clock.
Tick ==
  /\ now < MaxClock
  /\ now' = now + 1
  /\ UNCHANGED <<GEOLOCATION_AVAILABLE, location_data, attempt, notice, pc,
                 args, errors, outcome, success_count, txn, total_changes,
                 lock, address_input, page, store>>

\* ---------------------------------------------------------- specifications
Title       == <<"T">>
Description == <<"D">>
Blank       == <<" ">>

ManualFix == [method |-> "Manual", fired |-> TRUE, ok |-> TRUE, status |-> 0,
              latitude |-> Some(13), longitude |-> Some(80)]

\* Valid submissions of every category with up to MaxFiles files, the
\* location set by hand or not at all.
DStore ==
  [location |-> {Unpressed("Manual"), ManualFix},
   address  |-> {None},
   types    |-> ContributionTypes,
   titles   |-> {Title},
   descs    |-> {Description},
   names    |-> {Empty},
   nfiles   |-> 1..MaxFiles,
   rows     |-> MaxRows]

\* The form in full: blank and filled titles, descriptions and names, every
\* category, with and without files.
DForm ==
  [location |-> {Unpressed("Manual")},
   address  |-> {None},
   types    |-> ContributionTypes,
   titles   |-> {Empty, Blank, Title},
   descs    |-> {Empty, Blank, Description},
   names    |-> {Empty, Blank, <<"K">>},
   nfiles   |-> 0..MaxFiles,
   rows     |-> MaxRowsLoc]

\* The location methods in full, the submission valid and anonymous.
DLoc ==
  [location |-> GpsInputs \cup ManualInputs \cup IpInputs
                \cup {Unpressed(m) : m \in {"Manual", "IP"}},
   address  |-> {None, Some(<<"s">>)},
   types    |-> {TTemple, TEvent, TPhotos},
   titles   |-> {Title},
   descs    |-> {Description},
   names    |-> {Empty},
   nfiles   |-> {1},
   rows     |-> MaxRowsLoc]

Next ==
  \E s \in {1} :
    \/ Interact(s, DStore)
    \/ Submit(s, DStore)
    \/ Execute(s)
    \/ ExecuteFail(s)
    \/ CommitOk(s)
    \/ CommitFail(s)
    \/ Finish(s)

Spec == Init /\ [][Next]_vars

NextLoc ==
  \E s \in {1} :
    \/ Interact(s, DLoc)
    \/ Submit(s, DLoc)
    \/ Execute(s)
    \/ ExecuteFail(s)
    \/ CommitOk(s)
    \/ CommitFail(s)
    \/ Finish(s)

SpecLoc == Init /\ [][NextLoc]_vars

NextForm ==
  \E s \in {1} :
    \/ Interact(s, DForm)
    \/ Submit(s, DForm)
    \/ Execute(s)
    \/ ExecuteFail(s)
    \/ CommitOk(s)
    \/ CommitFail(s)
    \/ Finish(s)

SpecForm == Init /\ [][NextForm]_vars

\* Every page of the application: submissions of a temple, an event and
\* photos that succeed or fail, the read-only pages, and the clock.
DRead ==
  [location |-> {Unpressed("Manual"), ManualFix},
   address  |-> {None},
   types    |-> {TTemple, TEvent, TPhotos},
   titles   |-> {Title},
   descs    |-> {Description},
   names    |-> {Empty},
   nfiles   |-> 1..MaxFiles,
   rows     |-> MaxRowsLoc + 1]

NextRead ==
  \/ \E s \in {1} :
       \/ Interact(s, DRead)
       \/ Submit(s, DRead)
       \/ Execute(s)
       \/ ExecuteFail(s)
       \/ CommitOk(s)
       \/ CommitFail(s)
       \/ Finish(s)
       \/ Browse(s)
       \/ ViewTemples(s)
       \/ HeritageMap(s)
       \/ Statistics(s)
       \/ Home(s)
  \/ Tick

SpecRead == Init /\ [][NextRead]_vars

\* Two sessions on the upload page at once, each submitting a temple or
\* photos under its own title.
SessionTitle(s) == IF s = 1 THEN Title ELSE <<"U">>

DConc ==
  [s \in Sessions |->
     [location |-> {Unpressed("Manual")},
      address  |-> {None},
      types    |-> {TTemple, TPhotos},
      titles   |-> {SessionTitle(s)},
      descs    |-> {Description},
      names    |-> {Empty},
      nfiles   |-> 1..MaxFiles,
      rows     |-> MaxRows]]

NextConc ==
  \E s \in Sessions :
    \/ Interact(s, DConc[s])
    \/ Submit(s, DConc[s])
    \/ Execute(s)
    \/ ExecuteFail(s)
    \/ CommitOk(s)
    \/ CommitFail(s)
    \/ Finish(s)

SpecConc == Init /\ [][NextConc]_vars

\* Submissions that pass or fail the validation, with and without a fix in
\* the session, one after the other.
DReset ==
  [location |-> {Unpressed("Manual"), ManualFix}
                \cup {g \in GpsInputs : g.longitude # None},
   address  |-> {None, Some(<<"s">>)},
   types    |-> {TTemple, TPhotos},
   titles   |-> {Empty, Title},
   descs    |-> {Description},
   names    |-> {Empty},
   nfiles   |-> 0..1,
   rows     |-> MaxRowsLoc + 1]

NextReset ==
  \E s \in {1} :
    \/ Interact(s, DReset)
    \/ Submit(s, DReset)
    \/ Execute(s)
    \/ ExecuteFail(s)
    \/ CommitOk(s)
    \/ CommitFail(s)
    \/ Finish(s)

SpecReset == Init /\ [][NextReset]_vars

\* The database file as a run of the application finds it.  init_database
\* creates a table only if it does not exist, so the file holds the rows of
\* whoever wrote to it before; latitude and longitude are two nullable REAL
\* columns, each NULL or not on its own.
StoredLocations ==
  [latitude : {None, Some(90)}, longitude : {None, Some(-180)},
   address : {Empty}, method : {NoMethod}]

StoredArgs(t) == [submitted |-> TRUE, contribution_type |-> t,
                  title |-> Title, description |-> Description,
                  contributor_name |-> Empty, uploaded_files |-> Files(1)]

\* The location columns of the rows of a table of up to MaxStored rows.
StoredColumns == UNION {[1..n -> StoredLocations] : n \in 0..MaxStored}

InitBrowse ==
  /\ GEOLOCATION_AVAILABLE \in BOOLEAN
  /\ location_data = [s \in Sessions |-> UnsetLocation]
  /\ attempt = [s \in Sessions |-> NoAttempt]
  /\ notice = [s \in Sessions |-> "none"]
  /\ pc = [s \in Sessions |-> "idle"]
  /\ args = [s \in Sessions |-> NoArgs]
  /\ errors = [s \in Sessions |-> <<>>]
  /\ outcome = [s \in Sessions |-> "none"]
  /\ success_count = [s \in Sessions |-> 0]
  /\ txn = [s \in Sessions |-> <<>>]
  /\ total_changes = [s \in Sessions |-> 0]
  /\ lock = {}
  /\ address_input = [s \in Sessions |-> None]
  /\ page = [s \in Sessions |-> NoPage]
  /\ now = 0
  /\ temples \in
       {[i \in DOMAIN lds |-> TempleRow(i, StoredArgs(TTemple), lds[i], 0)] :
          lds \in StoredColumns}
  /\ temple_media = <<>>
  /\ content_contributions \in
       {[i \in DOMAIN lds |->
           ContentRow(i, StoredArgs(TPhotos), lds[i], File(1), 0)] :
          lds \in StoredColumns}
  /\ historical_events \in
       {[i \in DOMAIN lds |-> EventRow(i, StoredArgs(TEvent), lds[i], 0)] :
          lds \in StoredColumns}

\* The pages that list contributions by location.
NextBrowse ==
  \E s \in {1} :
    \/ Browse(s)
    \/ ViewTemples(s)
    \/ HeritageMap(s)
    \/ Finish(s)

SpecBrowse == InitBrowse /\ [][NextBrowse]_vars

\* ------------------------------------------------------------------ claims
Range(q) == {q[i] : i \in 1..Len(q)}

AllRows == Range(temples) \cup Range(content_contributions)
           \cup Range(historical_events)

\* The rows a step appends to each table.
AddedTo(old, new) == {new[i] : i \in (Len(old) + 1)..Len(new)}

Added == AddedTo(temples, temples')
         \cup AddedTo(content_contributions, content_contributions')
         \cup AddedTo(historical_events, historical_events')

BothOrNeither(r) == (r.latitude = None) <=> (r.longitude = None)

\* A step of session s that is a script run of the upload page.
IsRun(s) == pc[s] = "idle" /\ pc'[s] # "idle"

\* save_contribution of session s returns after a successful commit.
Saved(s) == pc[s] = "saving" /\ outcome'[s] = "saved"

\* The session fix keeps its coordinates and method tag over the step.
FixKept(s) ==
  /\ location_data'[s].latitude = location_data[s].latitude
  /\ location_data'[s].longitude = location_data[s].longitude
  /\ location_data'[s].method = location_data[s].method

\* C1: in every reachable state the session LocationFix and every persisted
\* row have latitude and longitude both set or both absent.
C1_BothOrNeither ==
  /\ \A s \in Sessions : BothOrNeither(location_data[s])
  /\ \A r \in AllRows : BothOrNeither(r)

\* C2: every row written for a submission whose contributor name is empty or
\* whitespace only has contributor_name "Anonymous"; a non-blank name is
\* stored as given.
C2_BlankNameIsAnonymous ==
  [][\A s \in Sessions :
       Saved(s) =>
         \A r \in Added :
           r.contributor_name =
             IF strip(args[s].contributor_name) = Empty
             THEN Anonymous ELSE args[s].contributor_name]_vars

\* C3: when save_contribution fails partway, none of the submission's rows is
\* committed, the rows of earlier submissions are unchanged and the reported
\* success count is 0.
C3_FailureCommitsNothing ==
  [][\A s \in Sessions :
       (pc[s] = "saving" /\ outcome'[s] = "failed") =>
         /\ temples' = temples
         /\ content_contributions' = content_contributions
         /\ historical_events' = historical_events
         /\ \A i \in 1..Len(txn[s]) :
               txn[s][i].row \notin Range(temples')
                                      \cup Range(content_contributions')
                                      \cup Range(historical_events')
         /\ txn'[s] = <<>>
         /\ success_count'[s] = 0]_vars

\* A submission of two files has failed on its second file, after the insert
\* of the first, with rows of earlier submissions in the store.
C3_Witness ==
  \E s \in Sessions :
    /\ outcome[s] = "failed"
    /\ Len(args[s].uploaded_files) = 2
    /\ total_changes[s] = 1
    /\ RowCount >= 1

\* C4: a file-bearing submission of N >= 1 files that is saved adds exactly N
\* rows to content_contributions, one per file in order, all with the
\* submission's title, description, contributor, coordinates and address,
\* adds nothing to temples or historical_events, and reports N.
C4_OneRowPerFile ==
  [][\A s \in Sessions :
       (Saved(s) /\ HasUploader(args[s].contribution_type)) =>
         LET a  == args[s]
             N  == Len(a.uploaded_files)
             ld == location_data[s]
             k  == Len(content_contributions)
         IN /\ N >= 1
            /\ Len(content_contributions') = k + N
            /\ SubSeq(content_contributions', 1, k) = content_contributions
            /\ \A i \in 1..N :
                 LET r == content_contributions'[k + i]
                 IN /\ r.title = a.title
                    /\ r.description = a.description
                    /\ r.content_type = a.contribution_type
                    /\ r.contributor_name = content_contributions'[k + 1].contributor_name
                    /\ r.latitude = ld.latitude
                    /\ r.longitude = ld.longitude
                    /\ r.location_address = ld.address
                    /\ r.filename = a.uploaded_files[i].name
            /\ temples' = temples
            /\ historical_events' = historical_events
            /\ success_count'[s] = N]_vars

\* A submission of two files has been saved and reported two rows.
C4_Witness ==
  \E s \in Sessions :
    /\ outcome[s] = "saved"
    /\ HasUploader(args[s].contribution_type)
    /\ Len(args[s].uploaded_files) = 2
    /\ success_count[s] = 2
    /\ Len(content_contributions) >= 2
    /\ content_contributions[Len(content_contributions)].latitude # None

\* C5: on submit the error list has one message for each violated rule
\* (blank title, blank description, file category without files), all of
\* them together; when it is not empty save_contribution is not called and
\* no row is written; Temple and Event categories never need a file.
C5_AllErrorsReported ==
  [][\A s \in Sessions :
       (IsRun(s) /\ args'[s].submitted) =>
         LET a == args'[s]
             e == errors'[s]
             noTitle == \A i \in 1..Len(a.title) : a.title[i] = " "
             noDesc  == \A i \in 1..Len(a.description) : a.description[i] = " "
             noFiles == /\ a.contribution_type \in {TPhotos, TAudio, TDocs}
                        /\ Len(a.uploaded_files) = 0
             n == (IF noTitle THEN 1 ELSE 0) + (IF noDesc THEN 1 ELSE 0)
                  + (IF noFiles THEN 1 ELSE 0)
         IN /\ Len(e) = n
            /\ noTitle <=> ErrTitle \in Range(e)
            /\ noDesc <=> ErrDescription \in Range(e)
            /\ noFiles <=> ErrFiles \in Range(e)
            /\ n > 0 => /\ pc'[s] = "done"
                        /\ outcome'[s] = "errors"
                        /\ store' = store
                        /\ txn' = txn
            /\ n = 0 => pc'[s] = "saving"]_vars

\* A file category was submitted with an empty title, an empty description
\* and no file: three errors.
C5_Witness ==
  \E s \in Sessions :
    /\ outcome[s] = "errors"
    /\ args[s].title = Empty /\ args[s].description = Empty
    /\ HasUploader(args[s].contribution_type)
    /\ Len(errors[s]) = 3
    /\ RowCount = 0

\* C6: a saved submission writes to exactly one table: "Temple Information"
\* one temples row, "Historical Event/Story" one historical_events row with
\* the coordinates and no address, any other category content_contributions
\* rows only.
C6_RoutedToOneTable ==
  [][\A s \in Sessions :
       Saved(s) =>
         LET t == args[s].contribution_type
             ld == location_data[s]
         IN /\ t = TTemple =>
                 /\ Len(temples') = Len(temples) + 1
                 /\ content_contributions' = content_contributions
                 /\ historical_events' = historical_events
            /\ t = TEvent =>
                 /\ Len(historical_events') = Len(historical_events) + 1
                 /\ temples' = temples
                 /\ content_contributions' = content_contributions
                 /\ LET r == historical_events'[Len(historical_events')]
                    IN /\ r.latitude = ld.latitude
                       /\ r.longitude = ld.longitude
                       /\ "location_address" \notin DOMAIN r
            /\ t \notin {TTemple, TEvent} =>
                 /\ Len(content_contributions') > Len(content_contributions)
                 /\ temples' = temples
                 /\ historical_events' = historical_events]_vars

\* A Historical Event/Story with coordinates has been saved.
C6_Witness ==
  \E s \in Sessions :
    /\ outcome[s] = "saved"
    /\ args[s].contribution_type = TEvent
    /\ historical_events # <<>>
    /\ historical_events[Len(historical_events)].latitude # None

\* The lookup of an IP attempt failed: an exception or timeout, a status
\* other than 200, or a body without a latitude.
IpLookupFailed(a) ==
  a.method = "IP" /\ a.fired
  /\ (~a.ok \/ a.status # 200 \/ a.latitude = None)

\* C7: a failed IP lookup is reported as a failure and writes no coordinates
\* and no "IP" tag: the session fix keeps the coordinates and the method tag
\* it had, which is what a later submission stores.
C7_FailedIpLookupWritesNothing ==
  [][\A s \in Sessions :
       (IsRun(s) /\ IpLookupFailed(attempt'[s])) =>
         /\ notice'[s] = "ip_failed"
         /\ FixKept(s)]_vars

\* A lookup answered HTTP 500 with coordinates in its body, and the session
\* fix is not an IP fix.
C7_Witness ==
  \E s \in Sessions :
    /\ pc[s] = "done"
    /\ attempt[s].method = "IP" /\ attempt[s].status = 500
    /\ attempt[s].latitude # None /\ attempt[s].longitude # None
    /\ notice[s] = "ip_failed"
    /\ location_data[s].method # "IP"

\* The state right after a script run, before save_contribution returns.
RunJustEnded(s) ==
  pc[s] \in {"done", "saving"} /\ outcome[s] \notin {"saved", "failed"}

\* C8: for each method a reading with latitude 0 and a longitude present is
\* accepted: the session fix holds that pair with the method's tag.
C8_ZeroLatitudeAccepted ==
  \A s \in Sessions :
    LET a == attempt[s]
    IN (/\ RunJustEnded(s)
        /\ a.fired /\ a.latitude = Some(0) /\ a.longitude # None
        /\ a.method = "GPS" => GEOLOCATION_AVAILABLE
        /\ a.method = "IP" => a.ok /\ a.status = 200
        /\ a.method = "Manual" => a.longitude[1] \in -180..180)
       => /\ location_data[s].latitude = Some(0)
          /\ location_data[s].longitude = a.longitude
          /\ location_data[s].method = a.method

InRange(lat, lon) == lat \in -90..90 /\ lon \in -180..180

C10_GpsWithoutCoordinates ==
  [][\A s \in Sessions :
       (IsRun(s) /\ attempt'[s].method = "GPS" /\ attempt'[s].fired
          /\ attempt'[s].latitude = None) =>
         /\ FixKept(s)
         /\ notice'[s] = IF GEOLOCATION_AVAILABLE THEN "gps_failed"
                         ELSE "gps_unavailable"]_vars

\* A reading without coordinates came in while a fix set by hand was held.
C10_Witness ==
  \E s \in Sessions :
    /\ pc[s] = "done"
    /\ GEOLOCATION_AVAILABLE
    /\ attempt[s].method = "GPS" /\ attempt[s].fired
    /\ attempt[s].latitude = None /\ attempt[s].longitude = None
    /\ notice[s] = "gps_failed"
    /\ location_data[s].method = "Manual"

\* The table new holds the rows of old, unchanged and in place, and then
\* possibly more.
IsPrefix(old, new) ==
  /\ Len(old) <= Len(new)
  /\ \A i \in 1..Len(old) : new[i] = old[i]

\* A step of session s that is a script run of a read-only page.
IsRead(s) == pc[s] = "idle" /\ page'[s] # NoPage

\* C11: the store is append-only under every sequence of operations: over
\* every step each of the four tables keeps every committed row unchanged
\* (identifier and creation timestamp included) and its row count does not
\* decrease, and a run of a read or aggregation page (browse, temple
\* listing, map, statistics, home) leaves the four tables as they were.
C11_AppendOnly ==
  [][/\ \A t \in 1..4 :
          /\ IsPrefix(store[t], store'[t])
          /\ Len(store'[t]) >= Len(store[t])
          /\ \A i \in 1..Len(store[t]) :
               /\ store'[t][i].id = store[t][i].id
               /\ store'[t][i].created_at = store[t][i].created_at
     /\ \A s \in Sessions : IsRead(s) => store' = store]_vars

\* A read page rendered over a store that two submissions committed to at
\* different times.
C11_Witness ==
  \E s \in Sessions :
    /\ page[s].name = "statistics"
    /\ \E r1, r2 \in AllRows : r1.created_at < r2.created_at

RowTitle(r) == IF "name" \in DOMAIN r THEN r.name
               ELSE IF "event_title" \in DOMAIN r THEN r.event_title
               ELSE r.title

\* C13: with two sessions inside save_contribution at once, in every
\* interleaving a commit appends exactly the rows of its own submission
\* after the rows already there and leaves the other session's rows and
\* open transaction alone; a submission that fails, or has not committed
\* yet, changes no table; the rows of every saved submission are in the
\* tables; and in each table the identifiers are distinct and count up in
\* the order of insertion.
C13_ConcurrentSubmissions ==
  [][/\ \A s \in Sessions :
          /\ Saved(s) =>
               /\ \A t \in 1..4 : IsPrefix(store[t], store'[t])
               /\ Cardinality(Added) = Inserts(args[s])
               /\ \A r \in Added : RowTitle(r) = args[s].title
               /\ \A o \in Sessions \ {s} : txn'[o] = txn[o]
          /\ (pc[s] = "saving" /\ outcome'[s] = "failed") => store' = store
          /\ Len(txn'[s]) > Len(txn[s]) => store' = store
          /\ outcome'[s] = "saved" =>
               Cardinality({r \in AllRows' : RowTitle(r) = args'[s].title})
                 >= success_count'[s]
     /\ \A t \in 1..4 : \A i \in 1..Len(store'[t]) : store'[t][i].id = i]_vars

\* Both sessions are inside save_contribution for a temple: the first has
\* inserted its row and holds the write lock, the second waits, and the
\* table already holds a committed temple.
C13_Witness ==
  /\ pc[1] = "saving" /\ pc[2] = "saving"
  /\ args[1].contribution_type = TTemple /\ args[2].contribution_type = TTemple
  /\ txn[1] # <<>> /\ lock = {1}
  /\ temples # <<>>

\* The run's location attempt is one the code takes as a resolution, given
\* the widgets' values a and whether the GPS component was imported.
GpsResolved(a, gps) ==
  a.method = "GPS" /\ gps /\ a.fired /\ a.latitude # None /\ a.latitude[1] # 0

ManualResolved(a) == a.method = "Manual" /\ a.fired

IpResolved(a) ==
  /\ a.method = "IP" /\ a.fired /\ a.ok /\ a.status = HttpOk
  /\ a.latitude # None /\ a.latitude[1] # 0

\* C14: in every reachable state of the session LocationFix the method tag
\* is set (GPS, Manual or IP) if and only if latitude is set.  The initial
\* and the post-submission state have both absent; a run whose attempt
\* resolves writes the tag of its method together with the coordinates; and
\* any other step but the reset after a save leaves the tag as it was, so
\* the tag names the method of the most recent successful resolution.
C14_TagIffLatitude ==
  /\ \A s \in Sessions : location_data[s] = UnsetLocation
  /\ [][\A s \in Sessions :
          LET a  == attempt'[s]
              ld == location_data'[s]
              resolved == IsRun(s) /\ (\/ GpsResolved(a, GEOLOCATION_AVAILABLE)
                                       \/ ManualResolved(a)
                                       \/ IpResolved(a))
          IN /\ (ld.method # NoMethod) <=> (ld.latitude # None)
             /\ ld.method \in {NoMethod, "GPS", "Manual", "IP"}
             /\ resolved => ld.method = a.method /\ ld.latitude # None
             /\ (resolved /\ a.method # "Manual") =>
                  ld.latitude = a.latitude /\ ld.longitude = a.longitude
             /\ Saved(s) => ld.method = NoMethod /\ ld.latitude = None
             /\ (~resolved /\ ~Saved(s)) =>
                  ld.method = location_data[s].method]_vars

\* An IP lookup resolved: the session fix has its coordinates and address
\* and the tag IP.
C14_Witness ==
  \E s \in Sessions :
    /\ pc[s] = "done" /\ attempt[s].method = "IP" /\ attempt[s].fired
    /\ location_data[s].method = "IP"
    /\ location_data[s].latitude = Some(90)
    /\ location_data[s].address = IpAddress

\* C15: the session LocationFix is reset to the unset state (latitude,
\* longitude and method absent, address empty) exactly when a submission
\* succeeds with a success count above 0.  A submission blocked by
\* validation errors or aborted by a storage failure leaves the fix the
\* run's location component gave unchanged, and no other step takes a set
\* fix away.  The rows of a submission carry the fix the session has at
\* that submission, so a fix cleared by one successful submission is not in
\* the rows of the next.
C15_ResetOnSuccess ==
  [][\A s \in Sessions :
       LET a == attempt'[s]
       IN /\ (Saved(s) /\ success_count[s] > 0) =>
               location_data'[s] = UnsetLocation
          /\ (pc[s] = "saving" /\ outcome'[s] = "failed") =>
               location_data'[s] = location_data[s]
          /\ (IsRun(s) /\ outcome'[s] = "errors") =>
               /\ IF GpsResolved(a, GEOLOCATION_AVAILABLE)
                  THEN /\ location_data'[s].latitude = a.latitude
                       /\ location_data'[s].longitude = a.longitude
                       /\ location_data'[s].method = "GPS"
                  ELSE FixKept(s)
               /\ location_data'[s].address =
                    AddressInput(address_input'[s], location_data[s].address)
          /\ (location_data[s].latitude # None
                /\ location_data'[s].latitude = None) =>
               Saved(s) /\ success_count[s] > 0
          /\ Saved(s) =>
               \A r \in Added :
                 /\ r.latitude = location_data[s].latitude
                 /\ r.longitude = location_data[s].longitude]_vars

\* A second submission saved without a fix after a first one saved with its
\* fix: the session fix is unset, the first row has the coordinates and the
\* second has none.
C15_Witness ==
  \E s \in Sessions :
    /\ pc[s] = "done" /\ outcome[s] = "saved"
    /\ location_data[s] = UnsetLocation
    /\ Len(temples) = 2
    /\ temples[1].latitude # None /\ temples[2].latitude = None

\* The run's location attempt failed: the GPS component is not available or
\* its reading has no coordinates, or the IP lookup failed.
FailedAttempt(a, gps) ==
  \/ a.method = "GPS" /\ (~gps \/ (a.fired /\ a.latitude = None))
  \/ IpLookupFailed(a)

\* C16: a run whose resolution attempt fails (GPS unavailable or without
\* coordinates, IP lookup failure) leaves the session LocationFix as it was
\* before the attempt: coordinates and method tag are kept, and so is the
\* address unless the user types another one into the address box in that
\* run.  A submission then persists the fix the session holds: the
\* coordinates and address of the earlier fix if one was set, null
\* coordinates if none was.
C16_FailedAttemptKeepsFix ==
  [][\A s \in Sessions :
       /\ (IsRun(s) /\ FailedAttempt(attempt'[s], GEOLOCATION_AVAILABLE)) =>
            /\ FixKept(s)
            /\ address_input'[s] = None =>
                 location_data'[s] = location_data[s]
            /\ location_data'[s].address \in
                 {location_data[s].address}
                 \cup {address_input'[s][i] : i \in DOMAIN address_input'[s]}
       /\ Saved(s) =>
            \A r \in Added :
              /\ r.latitude = location_data[s].latitude
              /\ r.longitude = location_data[s].longitude
              /\ "location_address" \in DOMAIN r =>
                   r.location_address = location_data[s].address]_vars

\* A submission whose run read a GPS reading without coordinates was saved
\* with the coordinates and the address of the fix set before.
C16_Witness ==
  \E s \in Sessions :
    /\ pc[s] = "done" /\ outcome[s] = "saved"
    /\ GEOLOCATION_AVAILABLE
    /\ attempt[s].method = "GPS" /\ attempt[s].fired
    /\ attempt[s].latitude = None
    /\ \E r \in Range(temples) :
         r.latitude = Some(90) /\ r.location_address = IpAddress

====
